---- MODULE Spec2Model ----
(***************************************************************************)
(* Model of the DMMF transformation of prisma-client-js (photon):          *)
(* transformDmmf = filter(transformOrderInputTypes(                        *)
(*                          transformWhereInputTypes(document))).          *)
(* Strings are TLA+ strings; the JavaScript string methods the code uses   *)
(* are defined below on them. Arrays live in a heap so that the aliasing   *)
(* of the passes (push into a shared array) is part of the model.          *)
(***************************************************************************)
EXTENDS Integers, Sequences, FiniteSets, TLC

VARIABLES pc, calls, heap, document, filterTypes, doc, result, fin, fout

vars == <<pc, calls, heap, document, filterTypes, doc, result, fin, fout>>

Null == [null |-> TRUE]

\* ------------------------------------------------------------------------
\* Bounds of the explored inputs.
MaxFields == 2
MaxTypes == 2
MaxEnums == 2
\* the number of times transformDmmf is run, each run on the previous run's result
MaxCalls == 2

\* ------------------------------------------------------------------------
\* JavaScript string and array methods used by the code.

\* String.prototype.endsWith
EndsWith(s, suf) ==
    /\ Len(s) >= Len(suf)
    /\ SubSeq(s, Len(s) - Len(suf) + 1, Len(s)) = suf

\* String.prototype.includes
Includes(s, sub) ==
    \E i \in 1..(Len(s) - Len(sub) + 1) : SubSeq(s, i, i + Len(sub) - 1) = sub

\* String.prototype.lastIndexOf: the 0-based index of the last occurrence, or -1
LastIndexOf(s, sub) ==
    LET hits == {i \in 1..(Len(s) - Len(sub) + 1) : SubSeq(s, i, i + Len(sub) - 1) = sub}
    IN  IF hits = {} THEN -1
        ELSE (CHOOSE i \in hits : \A j \in hits : j <= i) - 1

\* String.prototype.slice(0, end): a negative end counts from the end of the string
Slice0(s, end) ==
    LET e == IF end < 0
             THEN (IF Len(s) + end < 0 THEN 0 ELSE Len(s) + end)
             ELSE (IF end > Len(s) THEN Len(s) ELSE end)
    IN  SubSeq(s, 1, e)

\* the set of elements of an array
Range(seq) == {seq[i] : i \in 1..Len(seq)}

\* { ...a, isRelationFilter: true }
WithRelationFilter(a) ==
    [k \in DOMAIN a \cup {"isRelationFilter"} |->
        IF k = "isRelationFilter" THEN TRUE ELSE a[k]]

\* ------------------------------------------------------------------------
\* Filter type factory.

getScalarArg(name, type, isList) ==
    [name |-> name, isEnum |-> FALSE, isList |-> isList,
     isRequired |-> FALSE, isScalar |-> TRUE, type |-> type]

getScalarArgs(names, type, isList) ==
    [i \in 1..Len(names) |-> getScalarArg(names[i], type, isList)]

getFilterName(type, isRequired) ==
    (IF isRequired THEN "" ELSE "Nullable") \o type \o "Filter"

getWhereInputName(type) == type \o "WhereInput"

getInclusionFiltersScalar(type) == getScalarArgs(<<"in", "notIn">>, <<type>>, FALSE)

getInclusionFilters(type) == getScalarArgs(<<"in", "notIn">>, <<type>>, TRUE)

getAlphanumericFilters(type) ==
    getScalarArgs(<<"lt", "lte", "gt", "gte">>, <<type>>, FALSE)

getStringFilters(type) ==
    getScalarArgs(<<"contains", "startsWith", "endsWith">>, <<type>>, FALSE)

getBaseFilters(type, isRequired) ==
    LET filterName == getFilterName(type, isRequired)
        nullArray == IF isRequired THEN <<>> ELSE <<"null">>
    IN  getScalarArgs(<<"equals">>, <<type>> \o nullArray, FALSE)
        \o getScalarArgs(<<"not">>, <<type>> \o nullArray \o <<filterName>>, FALSE)

getScalarFilterArgs(type, isRequired, isEnum) ==
    IF isEnum
    THEN getBaseFilters(type, isRequired) \o getInclusionFilters(type)
    ELSE IF type \in {"String", "ID", "UUID"}
    THEN getBaseFilters(type, isRequired) \o getInclusionFilters(type)
         \o getAlphanumericFilters(type) \o getStringFilters(type)
    ELSE IF type \in {"Int", "Float", "DateTime"}
    THEN getBaseFilters(type, isRequired) \o getInclusionFilters(type)
         \o getAlphanumericFilters(type)
    ELSE IF type = "Boolean"
    THEN getBaseFilters(type, isRequired)
    ELSE <<>>

getRelationFilterArgs(type) ==
    getScalarArgs(<<"every", "some", "none">>, <<getWhereInputName(type)>>, FALSE)

\* a slip that names the filter by isRequired alone
makeFilterTypeByRequired(type, isRequired, isScalar) ==
    [name |-> getFilterName(type, isRequired),
     args |-> IF isScalar THEN getScalarFilterArgs(type, isRequired, FALSE)
              ELSE getRelationFilterArgs(type),
     atLeastOne |-> TRUE]

\* getScalarFilterArgs is called without its third argument: isEnum = false
makeFilterType(type, isRequired, isScalar) ==
    [name |-> getFilterName(type, isRequired \/ ~isScalar),
     args |-> IF isScalar THEN getScalarFilterArgs(type, isRequired, FALSE)
              ELSE getRelationFilterArgs(type),
     atLeastOne |-> TRUE]

\* ------------------------------------------------------------------------
\* transformWhereInputTypes.

\* document.datamodel.models.find(m => m.name === modelName)
FindModel(models, modelName) ==
    LET hits == {i \in 1..Len(models) : models[i].name = modelName}
    IN  IF hits = {} THEN Null
        ELSE models[CHOOSE i \in hits : \A j \in hits : i <= j]

\* type.name.slice(0, type.name.lastIndexOf('WhereInput'))
whereModelName(typeName) == Slice0(typeName, LastIndexOf(typeName, "WhereInput"))

\* ['AND', 'OR', 'NOT'] followed by the names of the singular relation fields
whiteList(model) ==
    {"AND", "OR", "NOT"}
    \cup {f.name : f \in {g \in Range(model.fields) : g.kind = "relation" /\ ~g.isList}}

\* .filter(f => (f.kind === 'relation' ? f.isList : !f.isList))
isFilterField(f) == IF f.kind = "relation" THEN f.isList ELSE ~f.isList

\* the cache key of a field: getFilterName(f.type, f.isRequired || f.kind === 'relation')
fieldFilterName(f) == getFilterName(f.type, f.isRequired \/ f.kind = "relation")

\* the body of the .map callback after the cache lookup: the synthesized arg
whereFieldArg(f) ==
    [name |-> f.name,
     type |-> (IF f.kind # "relation" THEN <<f.type>> ELSE <<>>)
              \o <<fieldFilterName(f)>>
              \o (IF ~f.isRequired /\ f.kind # "relation" THEN <<"null">> ELSE <<>>),
     isScalar |-> FALSE, isRequired |-> FALSE, isEnum |-> FALSE,
     isList |-> FALSE, isRelationFilter |-> FALSE]

\* filterTypes is a Dictionary; Object.values lists it in insertion order, so it is
\* kept as the sequence of its entries in insertion order
cacheHas(dict, key) == \E j \in 1..Len(dict) : dict[j].key = key

\* if (!filterTypes[key]) { filterTypes[key] = makeFilterType(...) }
cachePut(dict, f) ==
    IF cacheHas(dict, fieldFilterName(f)) THEN dict
    ELSE Append(dict,
                [key |-> fieldFilterName(f),
                 value |-> makeFilterType(f.type, f.isRequired, f.kind # "relation")])

\* the cache after the .map callback has run over fields[i..]
RECURSIVE cacheFields(_, _, _)
cacheFields(fields, i, dict) ==
    IF i > Len(fields) THEN dict
    ELSE cacheFields(fields, i + 1, cachePut(dict, fields[i]))

\* a slip that appends the synthesized args instead of prepending them
whereArgsPushed(type, model) ==
    LET kept == SelectSeq(type.args, LAMBDA a : a.name \in whiteList(model))
        synth == SelectSeq(model.fields, isFilterField)
    IN  [i \in 1..Len(kept) |-> WithRelationFilter(kept[i])]
        \o [i \in 1..Len(synth) |-> whereFieldArg(synth[i])]

\* args = whitelisted original args, then args.unshift(...synthesized)
whereArgs(type, model) ==
    LET kept == SelectSeq(type.args, LAMBDA a : a.name \in whiteList(model))
        synth == SelectSeq(model.fields, isFilterField)
    IN  [i \in 1..Len(synth) |-> whereFieldArg(synth[i])]
        \o [i \in 1..Len(kept) |-> WithRelationFilter(kept[i])]

\* newType
whereType(type, model) ==
    [name |-> type.name, args |-> whereArgs(type, model),
     isWhereType |-> TRUE, atLeastOne |-> TRUE]

\* the for loop over types, from types[i] on
RECURSIVE whereLoop(_, _, _, _, _)
whereLoop(models, types, i, inputTypes, dict) ==
    IF i > Len(types)
    THEN [inputTypes |-> inputTypes, filterTypes |-> dict]
    ELSE LET type == types[i]
             model == FindModel(models, whereModelName(type.name))
         IN  IF ~EndsWith(type.name, "WhereInput") \/ model = Null
             THEN whereLoop(models, types, i + 1, Append(inputTypes, type), dict)
             ELSE whereLoop(models, types, i + 1,
                            Append(inputTypes, whereType(type, model)),
                            cacheFields(SelectSeq(model.fields, isFilterField), 1,
                                        dict))

\* the inputTypes array the pass returns: the loop's types, then Object.values(filterTypes)
whereInputTypes(models, types) ==
    LET r == whereLoop(models, types, 1, <<>>, <<>>)
    IN  r.inputTypes \o [j \in 1..Len(r.filterTypes) |-> r.filterTypes[j].value]

\* ------------------------------------------------------------------------
\* transformOrderInputTypes.

\* the reduce over type.values
RECURSIVE orderArgNames(_, _)
orderArgNames(values, i) ==
    IF i > Len(values) THEN <<>>
    ELSE (IF EndsWith(values[i], "ASC")
          THEN <<Slice0(values[i], LastIndexOf(values[i], "_ASC"))>>
          ELSE <<>>)
         \o orderArgNames(values, i + 1)

orderArg(name) ==
    [name |-> name, type |-> <<"OrderByArg">>, isEnum |-> FALSE, isList |-> FALSE,
     isRelationFilter |-> FALSE, isRequired |-> FALSE, isScalar |-> TRUE]

\* a slip that leaves out atMostOne
orderInputTypeNoAtMostOne(type) ==
    [name |-> type.name, atLeastOne |-> TRUE, isOrderType |-> TRUE,
     args |-> LET argNames == orderArgNames(type.values, 1)
              IN  [i \in 1..Len(argNames) |-> orderArg(argNames[i])]]

orderInputType(type) ==
    [name |-> type.name, atLeastOne |-> TRUE, atMostOne |-> TRUE, isOrderType |-> TRUE,
     args |-> LET argNames == orderArgNames(type.values, 1)
              IN  [i \in 1..Len(argNames) |-> orderArg(argNames[i])]]

isOrderEnum(type) == EndsWith(type.name, "OrderByInput")

OrderByArg == [name |-> "OrderByArg", values |-> <<"asc", "desc">>]

\* a slip that adds OrderByArg only when an order-by enum was found
orderEnumsLazy(enums) ==
    (IF \E i \in 1..Len(enums) : isOrderEnum(enums[i]) THEN <<OrderByArg>> ELSE <<>>)
    \o SelectSeq(enums, LAMBDA e : ~isOrderEnum(e))

\* the enums array: OrderByArg, then every enum the loop passes through
orderEnums(enums) == <<OrderByArg>> \o SelectSeq(enums, LAMBDA e : ~isOrderEnum(e))

\* the input types the loop pushes, in order
orderPushed(enums) ==
    LET found == SelectSeq(enums, isOrderEnum)
    IN  [i \in 1..Len(found) |-> orderInputType(found[i])]

\* ------------------------------------------------------------------------
\* The finisher.

\* uniqBy(types, o => o.name) of ./utils/common: first occurrence wins
uniqBy(types) ==
    SelectSeq([i \in 1..Len(types) |->
                  [keep |-> \A j \in 1..(i - 1) : types[j].name # types[i].name,
                   value |-> types[i]]],
              LAMBDA e : e.keep)

uniqByName(types) == [i \in 1..Len(uniqBy(types)) |-> uniqBy(types)[i].value]

\* a slip that prunes without deduplicating
filterInputTypesNoUniq(types) ==
    SelectSeq(types, LAMBDA o : ~Includes(o.name, "Subscription") /\ o.name # "MutationType")

filterInputTypes(types) ==
    SelectSeq(uniqByName(types),
              LAMBDA o : ~Includes(o.name, "Subscription") /\ o.name # "MutationType")

filterOutputTypes(types) ==
    SelectSeq(uniqByName(types),
              LAMBDA o : ~EndsWith(o.name, "PreviousValues")
                         /\ ~Includes(o.name, "Subscription"))

\* ------------------------------------------------------------------------
\* Input documents.

Field(name, type, kind, isList, isRequired) ==
    [name |-> name, type |-> type, kind |-> kind, isList |-> isList,
     isRequired |-> isRequired]

\* the fields a User model is built from
FieldPool ==
    {Field("id", "ID", "scalar", FALSE, TRUE),
     Field("name", "String", "scalar", FALSE, FALSE),
     Field("posts", "Post", "relation", TRUE, FALSE),
     Field("profile", "Profile", "relation", FALSE, FALSE),
     Field("tags", "String", "scalar", TRUE, FALSE),
     Field("role", "Role", "enum", FALSE, TRUE),
     Field("subs", "Subscription", "relation", TRUE, FALSE)}

PostModel ==
    [name |-> "Post",
     fields |-> <<Field("title", "String", "scalar", FALSE, TRUE),
                  Field("body", "String", "scalar", FALSE, FALSE),
                  Field("author", "User", "relation", FALSE, TRUE)>>]

\* the User model of the documented scenario
BlogUserFields ==
    <<Field("id", "ID", "scalar", FALSE, TRUE),
      Field("name", "String", "scalar", FALSE, FALSE),
      Field("posts", "Post", "relation", TRUE, FALSE),
      Field("profile", "Profile", "relation", FALSE, FALSE)>>

Models(userFields) == <<[name |-> "User", fields |-> userFields], PostModel>>

\* an arg of a naively generated input type
RawArg(name, type) ==
    [name |-> name, type |-> <<type>>, isEnum |-> FALSE, isList |-> FALSE,
     isRequired |-> FALSE, isScalar |-> FALSE]

UserWhereInput ==
    [name |-> "UserWhereInput",
     args |-> <<RawArg("AND", "UserWhereInput"), RawArg("id", "ID"),
                RawArg("OR", "UserWhereInput"), RawArg("NOT", "UserWhereInput"),
                RawArg("profile", "ProfileWhereInput")>>]

PostWhereInput ==
    [name |-> "PostWhereInput",
     args |-> <<RawArg("author", "UserWhereInput"), RawArg("title_contains", "String"),
                RawArg("AND", "PostWhereInput")>>]

\* input types the where pass meets
WhereTypePool ==
    {UserWhereInput, PostWhereInput,
     [name |-> "GhostWhereInput", args |-> <<RawArg("AND", "GhostWhereInput")>>],
     [name |-> "NullableStringFilter", args |-> <<>>]}

\* input types the order pass and the finisher meet
OrderTypeLists ==
    {<<>>,
     <<[name |-> "UserOrderByInput", args |-> <<>>]>>,
     <<[name |-> "MutationType", args |-> <<>>],
       [name |-> "UserSubscriptionWhereInput", args |-> <<>>]>>}

EnumPool ==
    {[name |-> "UserOrderByInput",
      values |-> <<"id_ASC", "id_DESC", "name_ASC", "name_DESC">>],
     [name |-> "PostOrderByInput", values |-> <<"title_ASC", "createdASC", "title_DESC">>],
     [name |-> "SubscriptionOrderByInput", values |-> <<"id_ASC", "id_DESC">>],
     [name |-> "Role", values |-> <<"ADMIN", "USER">>]}

OutputTypePool ==
    {[name |-> "User", fields |-> <<"id", "name">>],
     [name |-> "User", fields |-> <<"id">>],
     [name |-> "UserPreviousValues", fields |-> <<"id">>],
     [name |-> "UserSubscriptionPayload", fields |-> <<"node">>]}

\* all arrays over S of length at most n
RECURSIVE SeqsUpTo(_, _)
SeqsUpTo(S, n) ==
    IF n = 0 THEN {<<>>}
    ELSE LET shorter == SeqsUpTo(S, n - 1)
         IN  shorter \cup {Append(q, x) : q \in shorter, x \in S}

\* all arrays of distinct elements of S of length at most n
DistinctSeqsUpTo(S, n) ==
    {q \in SeqsUpTo(S, n) : \A i, j \in 1..Len(q) : q[i] = q[j] => i = j}

Mappings == <<[model |-> "User", findMany |-> "users"]>>
Queries == <<[name |-> "users", output |-> "User"]>>
Mutations == <<[name |-> "createUser", output |-> "User"]>>

\* a document whose schema arrays are heap[1], heap[2], heap[3]
Document(models) ==
    [datamodel |-> [models |-> models],
     mappings |-> Mappings,
     schema |-> [inputTypes |-> 1, enums |-> 2, outputTypes |-> 3,
                 queries |-> Queries, mutations |-> Mutations]]

FilterTypeNames ==
    {"String", "ID", "UUID", "Int", "Float", "DateTime", "Boolean", "Role", "Json"}

\* ------------------------------------------------------------------------
\* The state machine: one call of transformDmmf, or one call of makeFilterType.

InitCall(models, inputTypes, enums, outputTypes) ==
    /\ pc = "call"
    /\ calls = 1
    /\ heap = <<inputTypes, enums, outputTypes>>
    /\ document = Document(models)
    /\ filterTypes = <<>>
    /\ doc = Null
    /\ result = Null
    /\ fin = Null
    /\ fout = Null

InitWhere ==
    \E fields \in DistinctSeqsUpTo(FieldPool, MaxFields),
       inputTypes \in SeqsUpTo(WhereTypePool, MaxTypes) :
        InitCall(Models(fields), inputTypes, <<>>, <<>>)

InitOrder ==
    \E inputTypes \in OrderTypeLists, enums \in SeqsUpTo(EnumPool, MaxEnums) :
        InitCall(Models(BlogUserFields), inputTypes, enums, <<>>)

InitOutput ==
    \E outputTypes \in SeqsUpTo(OutputTypePool, MaxTypes) :
        InitCall(Models(BlogUserFields), <<UserWhereInput>>, <<>>, outputTypes)

InitFilter ==
    /\ pc = "filter"
    /\ calls = 0
    /\ heap = <<>>
    /\ document = Null
    /\ filterTypes = <<>>
    /\ doc = Null
    /\ result = Null
    /\ fin \in [type : FilterTypeNames, isRequired : BOOLEAN, isScalar : BOOLEAN]
    /\ fout = Null

Init == InitWhere \/ InitOrder \/ InitOutput \/ InitFilter

\* a slip that rewrites the caller's array in place
TransformWhereInputTypesInPlace ==
    /\ pc = "call"
    /\ heap' = [heap EXCEPT ![document.schema.inputTypes] =
                   whereInputTypes(document.datamodel.models, @)]
    /\ filterTypes' = whereLoop(document.datamodel.models,
                               heap[document.schema.inputTypes], 1, <<>>, <<>>).filterTypes
    /\ doc' = document
    /\ pc' = "where"
    /\ UNCHANGED <<calls, document, result, fin, fout>>

\* transformWhereInputTypes(document): a new inputTypes array, the rest shared
TransformWhereInputTypes ==
    /\ pc = "call"
    /\ heap' = Append(heap, whereInputTypes(document.datamodel.models,
                                            heap[document.schema.inputTypes]))
    /\ filterTypes' = whereLoop(document.datamodel.models,
                               heap[document.schema.inputTypes], 1, <<>>, <<>>).filterTypes
    /\ doc' = [document EXCEPT !.schema.inputTypes = Len(heap) + 1]
    /\ pc' = "where"
    /\ UNCHANGED <<calls, document, result, fin, fout>>

\* transformOrderInputTypes(doc): pushes into doc's inputTypes array, a new enums array
TransformOrderInputTypes ==
    /\ pc = "where"
    /\ heap' = Append([heap EXCEPT ![doc.schema.inputTypes] =
                          @ \o orderPushed(heap[doc.schema.enums])],
                      orderEnums(heap[doc.schema.enums]))
    /\ doc' = [doc EXCEPT !.schema.enums = Len(heap) + 1]
    /\ pc' = "order"
    /\ UNCHANGED <<calls, document, filterTypes, result, fin, fout>>

\* the return statement of transformDmmf
TransformDmmfReturn ==
    /\ pc = "order"
    /\ heap' = heap \o <<filterOutputTypes(heap[doc.schema.outputTypes]),
                         filterInputTypes(heap[doc.schema.inputTypes])>>
    /\ result' = [datamodel |-> doc.datamodel,
                  mappings |-> doc.mappings,
                  schema |-> [enums |-> doc.schema.enums,
                              queries |-> doc.schema.queries,
                              mutations |-> doc.schema.mutations,
                              outputTypes |-> Len(heap) + 1,
                              inputTypes |-> Len(heap) + 2]]
    /\ pc' = "done"
    /\ UNCHANGED <<calls, document, filterTypes, doc, fin, fout>>

\* makeFilterType(type, isRequired, isScalar)
MakeFilterType ==
    /\ pc = "filter"
    /\ fout' = makeFilterType(fin.type, fin.isRequired, fin.isScalar)
    /\ pc' = "filtered"
    /\ UNCHANGED <<calls, heap, document, filterTypes, doc, result, fin>>

\* the caller runs transformDmmf again, on the document the last run returned
TransformDmmfAgain ==
    /\ pc = "done"
    /\ calls < MaxCalls
    /\ calls' = calls + 1
    /\ document' = result
    /\ filterTypes' = <<>>
    /\ doc' = Null
    /\ result' = Null
    /\ pc' = "call"
    /\ UNCHANGED <<heap, fin, fout>>

Next ==
    \/ TransformWhereInputTypes
    \/ TransformOrderInputTypes
    \/ TransformDmmfReturn
    \/ TransformDmmfAgain
    \/ MakeFilterType

Spec == Init /\ [][Next]_vars

\* ------------------------------------------------------------------------
\* Views of the state used by the properties.

\* the caller's document
ArgModels == document.datamodel.models
ArgInputTypes == heap[document.schema.inputTypes]
ArgEnums == heap[document.schema.enums]
ArgOutputTypes == heap[document.schema.outputTypes]

\* the inputTypes array of the document the passes hand on
DocInputTypes == heap[doc.schema.inputTypes]

\* the document transformDmmf returned
OutInputTypes == heap[result.schema.inputTypes]
OutEnums == heap[result.schema.enums]
OutOutputTypes == heap[result.schema.outputTypes]

NamesOf(types) == {types[i].name : i \in 1..Len(types)}

CountNamed(types, name) == Cardinality({i \in 1..Len(types) : types[i].name = name})

NoTwoShareName(types) ==
    \A i, j \in 1..Len(types) : types[i].name = types[j].name => i = j

Flag(type, flag) == flag \in DOMAIN type /\ type[flag] = TRUE

\* ------------------------------------------------------------------------
\* C1: in the document transformDmmf returns no two input types share a name and
\* no two output types share a name, whatever duplicates the input or the
\* passes' own additions bring.
C1_UniqueNames ==
    pc = "done" => NoTwoShareName(OutInputTypes) /\ NoTwoShareName(OutOutputTypes)

\* an input type of the input is named like a filter type the where pass adds
C1_Witness ==
    /\ pc = "done"
    /\ CountNamed(ArgInputTypes, "NullableStringFilter") = 1
    /\ CountNamed(DocInputTypes, "NullableStringFilter") = 2
    /\ CountNamed(OutInputTypes, "NullableStringFilter") = 1

\* ------------------------------------------------------------------------
\* C2 as stated: the returned schema.enums holds exactly one enum named
\* OrderByArg, with values [asc, desc], whatever enums the input holds.
C2_ExactlyOneOrderByArg ==
    pc = "done" =>
        /\ CountNamed(OutEnums, "OrderByArg") = 1
        /\ \A i \in 1..Len(OutEnums) :
               OutEnums[i].name = "OrderByArg" => OutEnums[i].values = <<"asc", "desc">>

\* C2 amended: the returned schema.enums starts with the enum OrderByArg
\* [asc, desc] however many order-by enums the input has, and holds one enum of
\* that name more than the input's schema.enums does: exactly one when the input
\* has none.
C2_OrderByArgFirst ==
    pc = "done" =>
        /\ Len(OutEnums) >= 1
        /\ OutEnums[1] = [name |-> "OrderByArg", values |-> <<"asc", "desc">>]
        /\ CountNamed(OutEnums, "OrderByArg") = 1 + CountNamed(ArgEnums, "OrderByArg")

\* no order-by enum in the input, another enum passed through, OrderByArg once
C2_Witness ==
    /\ pc = "done"
    /\ ArgEnums # <<>>
    /\ \A i \in 1..Len(ArgEnums) : ~EndsWith(ArgEnums[i].name, "OrderByInput")
    /\ CountNamed(ArgEnums, "OrderByArg") = 0
    /\ CountNamed(OutEnums, "OrderByArg") = 1
    /\ Len(OutEnums) = 1 + Len(ArgEnums)

\* ------------------------------------------------------------------------
\* an input type of that name that is an order type
HasOrderType(types, name) ==
    \E i \in 1..Len(types) :
        /\ types[i].name = name
        /\ Flag(types[i], "isOrderType")
        /\ Flag(types[i], "atLeastOne")
        /\ Flag(types[i], "atMostOne")

\* C3 as stated: every enum of the input named ...OrderByInput is gone from the
\* returned schema.enums and the returned schema.inputTypes holds an order type
\* of that name, for every entity name.
C3_EveryOrderEnumReplaced ==
    pc = "done" =>
        \A i \in 1..Len(ArgEnums) :
            EndsWith(ArgEnums[i].name, "OrderByInput") =>
                /\ ArgEnums[i].name \notin NamesOf(OutEnums)
                /\ HasOrderType(OutInputTypes, ArgEnums[i].name)

\* C3 amended: every such enum is gone from the returned schema.enums; the
\* returned schema.inputTypes holds an order type of that name provided the name
\* does not contain 'Subscription' and the input's schema.inputTypes holds no
\* type of that name.
C3_OrderEnumReplacedUnlessPruned ==
    pc = "done" =>
        \A i \in 1..Len(ArgEnums) :
            EndsWith(ArgEnums[i].name, "OrderByInput") =>
                /\ ArgEnums[i].name \notin NamesOf(OutEnums)
                /\ (/\ ~Includes(ArgEnums[i].name, "Subscription")
                    /\ ArgEnums[i].name \notin NamesOf(ArgInputTypes))
                   => (/\ HasOrderType(OutInputTypes, ArgEnums[i].name)
                       /\ CountNamed(OutInputTypes, ArgEnums[i].name) = 1)

\* two order-by enums replaced, a third enum kept
C3_Witness ==
    /\ pc = "done"
    /\ "UserOrderByInput" \in NamesOf(ArgEnums)
    /\ "UserOrderByInput" \notin NamesOf(ArgInputTypes)
    /\ "UserOrderByInput" \notin NamesOf(OutEnums)
    /\ HasOrderType(OutInputTypes, "UserOrderByInput")

\* ------------------------------------------------------------------------
\* The where types of a document, as the claims describe them.

\* <Entity> of a name <Entity>WhereInput
EntityOf(name) == SubSeq(name, 1, Len(name) - Len("WhereInput"))

\* the input types of the input that name a model: their positions
ProcessedAt ==
    {i \in 1..Len(ArgInputTypes) :
        /\ EndsWith(ArgInputTypes[i].name, "WhereInput")
        /\ \E m \in Range(ArgModels) : m.name = EntityOf(ArgInputTypes[i].name)}

ModelAt(i) == CHOOSE m \in Range(ArgModels) : m.name = EntityOf(ArgInputTypes[i].name)

\* the fields that get a synthesized arg: list relations and non-list scalars/enums
SynthFields(model) ==
    SelectSeq(model.fields,
              LAMBDA f : \/ f.kind = "relation" /\ f.isList
                         \/ f.kind # "relation" /\ ~f.isList)

RequiredEffective(f) == f.isRequired \/ f.kind = "relation"

ExpectedFilterName(f) ==
    IF RequiredEffective(f) THEN f.type \o "Filter" ELSE "Nullable" \o f.type \o "Filter"

ExpectedUnion(f) ==
    IF f.kind = "relation" THEN <<ExpectedFilterName(f)>>
    ELSE IF f.isRequired THEN <<f.type, ExpectedFilterName(f)>>
    ELSE <<f.type, ExpectedFilterName(f), "null">>

\* the original args that are kept: AND, OR, NOT and the singular relation fields
KeptArgs(type, model) ==
    SelectSeq(type.args,
              LAMBDA a : \/ a.name \in {"AND", "OR", "NOT"}
                         \/ \E f \in Range(model.fields) :
                                f.kind = "relation" /\ ~f.isList /\ f.name = a.name)

\* C4: a where type whose entity is a model is rewritten to isWhereType,
\* atLeastOne, and args = one synthesized arg per list relation or non-list
\* scalar/enum field in field order, with the documented type union, followed by
\* the original AND/OR/NOT/singular-relation args in their order, each with
\* isRelationFilter = true and otherwise as it was.
C4_WhereTypeArgs ==
    pc = "where" =>
        \A i \in ProcessedAt :
            LET out == DocInputTypes[i]
                synth == SynthFields(ModelAt(i))
                kept == KeptArgs(ArgInputTypes[i], ModelAt(i))
            IN  /\ out.name = ArgInputTypes[i].name
                /\ Flag(out, "isWhereType")
                /\ Flag(out, "atLeastOne")
                /\ Len(out.args) = Len(synth) + Len(kept)
                /\ \A k \in 1..Len(synth) :
                       /\ out.args[k].name = synth[k].name
                       /\ out.args[k].type = ExpectedUnion(synth[k])
                /\ \A k \in 1..Len(kept) :
                       LET a == out.args[Len(synth) + k]
                       IN  /\ a.isRelationFilter = TRUE
                           /\ \A key \in DOMAIN kept[k] : a[key] = kept[k][key]

\* UserWhereInput of a User with a scalar list, an optional scalar and a singular
\* relation: one synthesized arg, then AND, OR, NOT, profile
C4_Witness ==
    /\ pc = "where"
    /\ \E i \in ProcessedAt :
           /\ ArgInputTypes[i].name = "UserWhereInput"
           /\ \E f \in Range(ModelAt(i).fields) : f.kind = "relation" /\ ~f.isList
           /\ Len(SynthFields(ModelAt(i))) = 1
           /\ Len(DocInputTypes[i].args) = 5
           /\ DocInputTypes[i].args[1].type = <<"String", "NullableStringFilter", "null">>
           /\ DocInputTypes[i].args[5].name = "profile"

\* ------------------------------------------------------------------------
\* the fields synthesized in this call, of any model
AllSynthFields ==
    UNION {Range(SynthFields(ModelAt(i))) : i \in ProcessedAt}

\* the input types the where pass appended after the loop's own
AppendedFilterTypes ==
    SubSeq(DocInputTypes, Len(ArgInputTypes) + 1, Len(DocInputTypes))

\* C5: in one where pass, fields of equal base type and requiredEffective refer
\* to one filter type name, type+'Filter' or 'Nullable'+type+'Filter'; the pass
\* appends exactly one input type of that name, whose name is its cache key; the
\* required and the nullable filter type of one base type are distinct entries.
C5_OneFilterTypePerKey ==
    pc = "where" =>
        /\ \A j \in 1..Len(filterTypes) : filterTypes[j].value.name = filterTypes[j].key
        /\ AppendedFilterTypes = [j \in 1..Len(filterTypes) |-> filterTypes[j].value]
        /\ \A f \in AllSynthFields :
               /\ CountNamed(AppendedFilterTypes, ExpectedFilterName(f)) = 1
               /\ Cardinality({j \in 1..Len(filterTypes) :
                                  filterTypes[j].key = ExpectedFilterName(f)}) = 1
        /\ \A i \in ProcessedAt : \A k \in 1..Len(SynthFields(ModelAt(i))) :
               LET f == SynthFields(ModelAt(i))[k]
               IN  ExpectedFilterName(f) \in Range(DocInputTypes[i].args[k].type)
        /\ \A f, g \in AllSynthFields :
               (f.type = g.type /\ RequiredEffective(f) # RequiredEffective(g))
                   => ExpectedFilterName(f) # ExpectedFilterName(g)

\* fields of two models share NullableStringFilter, a third has StringFilter, and
\* a list relation has its own filter type
C5_Witness ==
    /\ pc = "where"
    /\ \E f, g \in AllSynthFields :
           f # g /\ f.type = "String" /\ g.type = "String" /\ ~f.isRequired /\ ~g.isRequired
    /\ \E f \in AllSynthFields : f.type = "String" /\ f.isRequired
    /\ \E f \in AllSynthFields : f.kind = "relation"
    /\ CountNamed(AppendedFilterTypes, "NullableStringFilter") = 1
    /\ CountNamed(AppendedFilterTypes, "StringFilter") = 1

\* ------------------------------------------------------------------------
\* the values of an enum that end in '_ASC', with that suffix removed
RECURSIVE AscNames(_, _)
AscNames(values, i) ==
    IF i > Len(values) THEN <<>>
    ELSE (IF EndsWith(values[i], "_ASC")
          THEN <<SubSeq(values[i], 1, Len(values[i]) - Len("_ASC"))>>
          ELSE <<>>)
         \o AscNames(values, i + 1)

\* the order-by enums of the input, in order
ArgOrderEnums == SelectSeq(ArgEnums, LAMBDA e : EndsWith(e.name, "OrderByInput"))

\* the input types the order pass pushed
PushedOrderTypes ==
    SubSeq(DocInputTypes, Len(DocInputTypes) - Len(ArgOrderEnums) + 1, Len(DocInputTypes))

\* C6 as stated: the input type replacing an order-by enum has exactly one arg
\* per value ending in '_ASC', in order, named by the value without '_ASC' and
\* typed [OrderByArg], non-list, non-required, scalar; other values give no arg.
C6_OneArgPerAscValue ==
    pc = "order" =>
        \A k \in 1..Len(ArgOrderEnums) :
            LET names == AscNames(ArgOrderEnums[k].values, 1)
                out == PushedOrderTypes[k]
            IN  /\ out.name = ArgOrderEnums[k].name
                /\ Len(out.args) = Len(names)
                /\ \A n \in 1..Len(names) :
                       /\ out.args[n].name = names[n]
                       /\ out.args[n].type = <<"OrderByArg">>
                       /\ ~out.args[n].isList
                       /\ ~out.args[n].isRequired
                       /\ out.args[n].isScalar

\* ------------------------------------------------------------------------
\* a step of transformDmmf leaves the caller's document and its three schema
\* arrays as they were
ArgumentUntouched ==
    (document # Null /\ pc # "done") =>
        /\ document' = document
        /\ heap'[document.schema.inputTypes] = heap[document.schema.inputTypes]
        /\ heap'[document.schema.enums] = heap[document.schema.enums]
        /\ heap'[document.schema.outputTypes] = heap[document.schema.outputTypes]

\* the returned document differs from the caller's in the three schema arrays only
ResultFrame ==
    /\ DOMAIN result = DOMAIN document
    /\ DOMAIN result.schema = DOMAIN document.schema
    /\ result.datamodel = document.datamodel
    /\ result.mappings = document.mappings
    /\ result.schema.queries = document.schema.queries
    /\ result.schema.mutations = document.schema.mutations

\* C7: no step of transformDmmf changes the caller's document or its
\* schema.inputTypes, schema.enums and schema.outputTypes arrays, and the returned
\* document's datamodel, mappings, schema.queries and schema.mutations are the
\* caller's.
C7_ArgumentUnchanged ==
    /\ [][ArgumentUntouched]_vars
    /\ [](pc = "done" => ResultFrame)

\* the order pass pushed into the array it was handed and every result array
\* differs from the caller's
C7_Witness ==
    /\ pc = "done"
    /\ Len(ArgOrderEnums) > 0
    /\ Len(DocInputTypes) > Len(ArgInputTypes)
    /\ OutInputTypes # ArgInputTypes
    /\ OutEnums # ArgEnums
    /\ ResultFrame

\* ------------------------------------------------------------------------
\* the appended filter type of that name
FilterTypeNamed(name) ==
    AppendedFilterTypes[CHOOSE j \in 1..Len(AppendedFilterTypes) :
                            AppendedFilterTypes[j].name = name]

ArgNames(type) == {type.args[k].name : k \in 1..Len(type.args)}

\* C8 as stated: the filter type built for a non-list enum field that is
\* synthesized into a where type has equals, not, in, notIn, lt, lte, gt, gte.
C8_EnumFilterOperators ==
    pc = "where" =>
        \A f \in AllSynthFields :
            f.kind = "enum" =>
                /\ ExpectedFilterName(f) \in NamesOf(AppendedFilterTypes)
                /\ {"equals", "not", "in", "notIn", "lt", "lte", "gt", "gte"}
                       \subseteq ArgNames(FilterTypeNamed(ExpectedFilterName(f)))

\* ------------------------------------------------------------------------
ScalarOperatorNames(type) ==
    IF type \in {"String", "ID", "UUID"}
    THEN <<"equals", "not", "in", "notIn", "lt", "lte", "gt", "gte",
           "contains", "startsWith", "endsWith">>
    ELSE IF type \in {"Int", "Float", "DateTime"}
    THEN <<"equals", "not", "in", "notIn", "lt", "lte", "gt", "gte">>
    ELSE <<"equals", "not">>

\* C9: a scalar filter type of String/ID/UUID, Int/Float/DateTime or Boolean has
\* the documented arg names in order; only in and notIn are list-valued; equals
\* accepts [type] plus 'null' when optional, not accepts that union followed by
\* the filter type's own name.
C9_ScalarFilterArgs ==
    (/\ pc = "filtered"
     /\ fin.isScalar
     /\ fin.type \in {"String", "ID", "UUID", "Int", "Float", "DateTime", "Boolean"})
    => LET names == ScalarOperatorNames(fin.type)
           union == IF fin.isRequired THEN <<fin.type>> ELSE <<fin.type, "null">>
       IN  /\ Len(fout.args) = Len(names)
           /\ \A k \in 1..Len(names) :
                  /\ fout.args[k].name = names[k]
                  /\ fout.args[k].isList = (names[k] \in {"in", "notIn"})
           /\ fout.args[1].type = union
           /\ fout.args[2].type = union \o <<fout.name>>

\* an optional String field: eleven operators, 'null' accepted
C9_Witness ==
    /\ pc = "filtered"
    /\ fin = [type |-> "String", isRequired |-> FALSE, isScalar |-> TRUE]
    /\ Len(fout.args) = 11
    /\ fout.args[2].type = <<"String", "null", "NullableStringFilter">>
    /\ fout.args[3].isList

\* ------------------------------------------------------------------------
\* the filter type name in the type union of a synthesized arg
UnionFilterName(arg) == IF Len(arg.type) = 1 THEN arg.type[1] ELSE arg.type[2]

\* C10 as stated: in the returned document every filter type name in the type
\* union of a synthesized where-type arg names an input type of the returned
\* schema.inputTypes.
C10_FilterTypesPresent ==
    pc = "done" =>
        \A i \in 1..Len(OutInputTypes) :
            Flag(OutInputTypes[i], "isWhereType") =>
                \A k \in 1..Len(OutInputTypes[i].args) :
                    ~OutInputTypes[i].args[k].isRelationFilter =>
                        UnionFilterName(OutInputTypes[i].args[k]) \in NamesOf(OutInputTypes)

====
